---- MODULE Spec2Model ----
(***************************************************************************)
(* Model of the CCIP transfer front end: the transfer orchestrator         *)
(* (lib/ccip-client.ts), the amount and address helpers                    *)
(* (lib/ccip-utils.ts) and the transfer form that drives them              *)
(* (components/ccip-transfer-form).                                        *)
(*                                                                         *)
(* A JavaScript string is a sequence of one-character strings, so that     *)
(* slicing, parsing and matching are computed and not assumed.  An error   *)
(* message is a sequence of words; a template literal is the sequence of   *)
(* its parts.                                                              *)
(***************************************************************************)
EXTENDS Integers, Sequences, FiniteSets, TLC

\* ------------------------------------------------------------------ bounds
MaxTokens == 2      \* longest tokenAmounts list of a request
MaxLogs == 2        \* longest logMessages list of a fetched transaction
SigLen == 66        \* length of a transaction signature returned by the network

Null == "null"

Min(a, b) == IF a < b THEN a ELSE b

\* ------------------------------------------------------------------ strings
DigitChars == <<"0", "1", "2", "3", "4", "5", "6", "7", "8", "9">>
Digits == {DigitChars[i] : i \in 1..10}
DigitVal(c) == (CHOOSE i \in 1..10 : DigitChars[i] = c) - 1

RECURSIVE DigitsToNat(_)
DigitsToNat(s) ==
    IF s = <<>> THEN 0
    ELSE 10 * DigitsToNat(SubSeq(s, 1, Len(s) - 1)) + DigitVal(s[Len(s)])

IsDigits(s) == \A i \in 1..Len(s) : s[i] \in Digits

\* String.prototype.slice(0, n)
Slice0(s, n) == SubSeq(s, 1, Min(n, Len(s)))

\* error.message.includes(phrase), on word sequences
Includes(msg, phrase) ==
    \E i \in 0..(Len(msg) - Len(phrase)) : SubSeq(msg, i + 1, i + Len(phrase)) = phrase

\* BigInt(string): an optionally signed run of decimal digits (the empty
\* string is 0n); anything else is a SyntaxError.
BigIntParse(s) ==
    LET signed == Len(s) > 1 /\ s[1] \in {"-", "+"}
        body == IF signed THEN Tail(s) ELSE s
    IN  IF IsDigits(body)
        THEN [ok |-> TRUE,
              value |-> IF signed /\ s[1] = "-" THEN 0 - DigitsToNat(body) ELSE DigitsToNat(body)]
        ELSE [ok |-> FALSE, value |-> 0]

\* ------------------------------------------------------------------ requests
Accounts == {"Acct1"}
Mints == {"BnM", "LINK"}

DefaultReceiver ==
    <<"0","x","9","d","0","8","7","f","C","0","3","a","e","3","9","b","0","8","8","3","2","6",
      "b","6","7","f","A","3","C","7","8","8","2","3","6","6","4","5","b","7","1","7">>
ShortReceiver == <<"0", "x", "1", "2", "3">>

RawTen == <<"1","0","0","0","0","0","0","0">>
RawFraction == <<"1", ".", "5">>

\* amount strings a caller of executeRealCCIPTransfer may pass
ApiAmounts == {RawTen, RawFraction}
ApiReceivers == {DefaultReceiver, ShortReceiver}

TokenAmount(mint, amount) == [tokenMint |-> mint, amount |-> amount]
TokenAmountValues == {TokenAmount(m, a) : m \in Mints, a \in ApiAmounts}
TokenLists == UNION {[1..n -> TokenAmountValues] : n \in 0..MaxTokens}

\* the wallet capability object: publicKey (or none) and whether it has signTransaction
Wallets == [publicKey : Accounts \cup {Null}, canSign : BOOLEAN]

\* ------------------------------------------------------------------ ledger
TokenBalances == {0, 10000000}
Absent == [exists |-> FALSE, amount |-> 0]
Holding(b) == [exists |-> TRUE, amount |-> b]
AccountStates == {Absent} \cup {Holding(b) : b \in TokenBalances}

\* ------------------------------------------------------------------ errors
Err(msg) == [isError |-> TRUE, message |-> msg]
NonErr == [isError |-> FALSE, message |-> <<>>]

\* error instanceof Error ? error.message : "Unknown error"
ErrorMessage(e) == IF e.isError THEN e.message ELSE <<"Unknown error">>

NetworkError == Err(<<"failed", "to", "fetch">>)
\* getAccount on an account that does not exist rejects; the wording is the library's
MissingAccountErrors ==
    {Err(<<"could", "not", "find", "account">>), Err(<<"TokenAccountNotFoundError">>)}
SignRejections == {Err(<<"User", "rejected", "the", "request">>), NonErr}
SubmitRejections == {Err(<<"Transaction", "simulation", "failed">>)}
ConfirmRejections == {Err(<<"Transaction", "was", "not", "confirmed">>)}
NotAFunction == Err(<<"wallet.signTransaction", "is", "not", "a", "function">>)


RECURSIVE NatToStr(_)
NatToStr(n) ==
    IF n < 10 THEN <<DigitChars[n + 1]>>
    ELSE NatToStr(n \div 10) \o <<DigitChars[(n % 10) + 1]>>

\* String(n) of an integer
IntToStr(n) == IF n < 0 THEN <<"-">> \o NatToStr(0 - n) ELSE NatToStr(n)

HexDigitLetters == {"a", "b", "c", "d", "e", "f", "A", "B", "C", "D", "E", "F"}

\* ------------------------------------------------------------------ ccip-utils.ts
HexChars == HexDigitLetters \cup Digits

\* a variant whose pattern is not anchored at the end
isValidEthereumAddressUnanchored(address) ==
    /\ Len(address) >= 42
    /\ address[1] = "0"
    /\ address[2] = "x"
    /\ \A i \in 3..42 : address[i] \in HexChars

\* /^0x[a-fA-F0-9]{40}$/.test(address)
isValidEthereumAddress(address) ==
    /\ Len(address) = 42
    /\ address[1] = "0"
    /\ address[2] = "x"
    /\ \A i \in 3..42 : address[i] \in HexChars

RECURSIVE Pow10(_)
Pow10(n) == IF n = 0 THEN 1 ELSE 10 * Pow10(n - 1)

RECURSIVE SkipSpaces(_, _)
SkipSpaces(s, i) == IF i <= Len(s) /\ s[i] = " " THEN SkipSpaces(s, i + 1) ELSE i

RECURSIVE DigitRunEnd(_, _)
DigitRunEnd(s, i) == IF i <= Len(s) /\ s[i] \in Digits THEN DigitRunEnd(s, i + 1) ELSE i

InfinityChars == <<"I", "n", "f", "i", "n", "i", "t", "y">>

\* Number.parseFloat(s): the longest prefix, after leading blanks, that reads
\* as an optionally signed decimal literal (digits, a fraction, an exponent)
\* or as Infinity; NaN when there is none.  A number is kept exactly, as
\* (-1)^neg * mant * 10^(exp - scale).  The literal is read in stages: the
\* exponent last, given the digits before it.
ParseExponent(s, neg, i1, intDigits, fracDigits, i3) ==
    LET hasE == i3 <= Len(s) /\ s[i3] \in {"e", "E"}
        eSigned == hasE /\ i3 + 1 <= Len(s) /\ s[i3 + 1] \in {"+", "-"}
        expDigits == IF ~hasE THEN <<>>
                     ELSE IF eSigned THEN SubSeq(s, i3 + 2, DigitRunEnd(s, i3 + 2) - 1)
                     ELSE SubSeq(s, i3 + 1, DigitRunEnd(s, i3 + 1) - 1)
    IN  IF SubSeq(s, i1, Min(i1 + 7, Len(s))) = InfinityChars
        THEN [kind |-> "inf", neg |-> neg, mant |-> 0, scale |-> 0, exp |-> 0]
        ELSE IF Len(intDigits) + Len(fracDigits) = 0
        THEN [kind |-> "nan", neg |-> FALSE, mant |-> 0, scale |-> 0, exp |-> 0]
        ELSE [kind |-> "num", neg |-> neg, mant |-> DigitsToNat(intDigits \o fracDigits),
              scale |-> Len(fracDigits),
              exp |-> IF expDigits = <<>> THEN 0
                      ELSE IF eSigned /\ s[i3 + 1] = "-" THEN 0 - DigitsToNat(expDigits)
                      ELSE DigitsToNat(expDigits)]

\* the fraction, given the end i2 of the integer digits and the end i3 of the fraction
ParseFraction(s, neg, i1, i2, i3) ==
    ParseExponent(s, neg, i1, SubSeq(s, i1, i2 - 1), SubSeq(s, i2 + 1, i3 - 1), i3)

\* the integer digits, from i1 to i2
ParseDigits(s, neg, i1, i2) ==
    ParseFraction(s, neg, i1, i2,
                  IF i2 <= Len(s) /\ s[i2] = "." THEN DigitRunEnd(s, i2 + 1) ELSE i2)

\* the sign, at i0
ParseSign(s, i0) ==
    IF i0 <= Len(s) /\ s[i0] \in {"+", "-"}
    THEN ParseDigits(s, s[i0] = "-", i0 + 1, DigitRunEnd(s, i0 + 1))
    ELSE ParseDigits(s, FALSE, i0, DigitRunEnd(s, i0))

ParseFloat(s) == ParseSign(s, SkipSpaces(s, 1))

\* Math.floor(x * 10^decimals) of a parsed number (towards minus infinity)
FloorScaled(x, decimals) ==
    LET p == decimals + x.exp - x.scale
        whole == IF p >= 0 THEN x.mant * Pow10(p) ELSE x.mant \div Pow10(0 - p)
        exact == p >= 0 \/ x.mant % Pow10(0 - p) = 0
    IN  IF ~x.neg THEN whole
        ELSE IF exact THEN 0 - whole
        ELSE 0 - whole - 1

\* toRawTokenAmount(amount, decimals): "0" when the amount does not parse
RawOfParsed(x, decimals) ==
    IF x.kind = "nan" THEN <<"0">>
    ELSE IF x.kind = "inf"
         THEN (IF x.neg THEN <<"-">> ELSE <<>>) \o InfinityChars
    ELSE IntToStr(FloorScaled(x, decimals))

toRawTokenAmount(amount, decimals) == RawOfParsed(ParseFloat(amount), decimals)

\* (x).toFixed(n) keeps n fraction digits
FixedDigits == 6

RECURSIVE PadLeft(_, _)
PadLeft(s, n) == IF Len(s) >= n THEN s ELSE PadLeft(<<"0">> \o s, n)

RECURSIVE StripTrailingZeros(_)
StripTrailingZeros(s) ==
    IF s # <<>> /\ s[Len(s)] = "0" THEN StripTrailingZeros(SubSeq(s, 1, Len(s) - 1)) ELSE s

\* (x / 10^decimals).toFixed(6) of a parsed number, as the count of its
\* millionths: the nearest one, the larger of two that are equally near
RoundToFixed(x, decimals) ==
    LET p == x.exp - x.scale - decimals + FixedDigits
    IN  IF p >= 0 THEN x.mant * Pow10(p)
        ELSE (x.mant + (Pow10(0 - p) \div 2)) \div Pow10(0 - p)

\* Number.parseFloat(formatted).toString(): the trailing zeros of the fraction
\* go, and so do the point of a whole number and the sign of a zero
FixedToString(neg, micro) ==
    LET whole == NatToStr(micro \div Pow10(FixedDigits))
        fraction == StripTrailingZeros(PadLeft(NatToStr(micro % Pow10(FixedDigits)), FixedDigits))
    IN  IF micro = 0 THEN <<"0">>
        ELSE (IF neg THEN <<"-">> ELSE <<>>) \o whole
                \o (IF fraction = <<>> THEN <<>> ELSE <<".">> \o fraction)

\* formatTokenAmount of a parsed raw amount
FormatOfParsed(x, decimals) ==
    IF x.kind = "nan" THEN <<"0">>
    ELSE IF x.kind = "inf"
         THEN (IF x.neg THEN <<"-">> ELSE <<>>) \o InfinityChars
    ELSE FixedToString(x.neg, RoundToFixed(x, decimals))

\* formatTokenAmount(amount, decimals)
formatTokenAmount(amount, decimals) == FormatOfParsed(ParseFloat(amount), decimals)

\* ------------------------------------------------------------------ network
Sig(c) == [i \in 1..SigLen |-> c]
Signatures == {Sig("5"), Sig("K")}
Blockhashes == {"bh1"}

\* one log line is a sequence of tokens: words, blanks and single characters
HexXChars == HexChars \cup {"x"}
LogPlain == <<"Program", " ", "log">>
LogTagOnly == <<"Program", " ", "CCIPMessageSent">>
LogIdOnly == <<"messageId:", " ", "0", "x", "a", "a">>
LogTagId == <<"CCIPMessageSent", " ", "messageId:", " ", "0", "x", "1", "f">>
LogTagId2 == <<"CCIPMessageSent", " ", "messageId:", "7", "e", ";">>
LogLines == {LogPlain, LogTagOnly, LogIdOnly, LogTagId, LogTagId2}
LogLists == UNION {[1..n -> LogLines] : n \in 0..MaxLogs}

\* what connection.getTransaction can answer: it rejects, finds nothing, or
\* returns a transaction without meta, without logMessages, or with logs
GetTransactionOutcomes ==
    {[kind |-> k, logs |-> <<>>] : k \in {"throws", "null", "noMeta", "noLogs"}}
        \cup {[kind |-> "logs", logs |-> l] : l \in LogLists}

\* ------------------------------------------------------------------ ccip-client.ts
DefaultComputeUnits == 1400000
SliceLen == 64

RouterProgramId == "Ccip842gzYHhvdDkSyi2YVCoAWPbYJoApMFzSxQroE9C"
FeeQuoterProgramId == "FeeQPGkKDeRV1MgoYfMH6L8o3KeuYjwUZrgn4LRKfjHi"
SystemProgramId == "SystemProgram"
Token2022ProgramId == "TOKEN_2022_PROGRAM_ID"

\* getAssociatedTokenAddress(tokenMint, publicKey, false, TOKEN_2022_PROGRAM_ID)
AssociatedTokenAddress(mint, owner) == <<owner, mint>>

\* a variant that forgets to cut the signature
generateMessageIdWholeSignature(sig) == <<"0", "x">> \o sig

generateMessageId(sig) == <<"0", "x">> \o Slice0(sig, SliceLen)

\* log.includes("CCIPMessageSent")
LogHasTag(line) == \E i \in 1..Len(line) : line[i] = "CCIPMessageSent"

\* log.match(/messageId:\s*([0-9a-fA-Fx]+)/): the first position where the
\* token, any blanks and at least one character of the class follow one
\* another; the group is the longest run of class characters there.
RECURSIVE SkipBlanks(_, _)
SkipBlanks(line, i) ==
    IF i <= Len(line) /\ line[i] = " " THEN SkipBlanks(line, i + 1) ELSE i

RECURSIVE RunEnd(_, _)
RunEnd(line, i) ==
    IF i <= Len(line) /\ line[i] \in HexXChars THEN RunEnd(line, i + 1) ELSE i

MatchAt(line, i) ==
    LET start == SkipBlanks(line, i + 1)
        stop == RunEnd(line, start)
    IN  IF line[i] = "messageId:" /\ stop > start
        THEN SubSeq(line, start, stop - 1)
        ELSE <<>>

LogMessageIdMatch(line) ==
    LET hits == {i \in 1..Len(line) : MatchAt(line, i) # <<>>}
    IN  IF hits = {} THEN <<>>
        ELSE MatchAt(line, CHOOSE i \in hits : \A j \in hits : i <= j)

\* a variant that gives up at the first line with the tag
RECURSIVE ScanLogsFirstTagged(_, _)
ScanLogsFirstTagged(logs, sig) ==
    IF logs = <<>> THEN generateMessageId(sig)
    ELSE IF LogHasTag(Head(logs))
         THEN (IF LogMessageIdMatch(Head(logs)) # <<>> THEN LogMessageIdMatch(Head(logs))
               ELSE generateMessageId(sig))
         ELSE ScanLogsFirstTagged(Tail(logs), sig)

\* the for loop of extractMessageId: the first line that has the tag and a match
RECURSIVE ScanLogs(_, _)
ScanLogs(logs, sig) ==
    IF logs = <<>> THEN generateMessageId(sig)
    ELSE IF LogHasTag(Head(logs)) /\ LogMessageIdMatch(Head(logs)) # <<>>
         THEN LogMessageIdMatch(Head(logs))
         ELSE ScanLogs(Tail(logs), sig)

\* a variant without the fallback when the logs cannot be fetched
extractMessageIdNoFallback(answer, sig) ==
    IF answer.kind = "logs" THEN ScanLogs(answer.logs, sig) ELSE <<>>

extractMessageId(answer, sig) ==
    IF answer.kind = "logs" THEN ScanLogs(answer.logs, sig)
    ELSE generateMessageId(sig)

ComputeBudgetInstruction(units) ==
    [kind |-> "setComputeUnitLimit", units |-> units]

CreateATAInstruction(payer, ata, owner, mint) ==
    [kind |-> "createAssociatedTokenAccount", payer |-> payer, account |-> ata,
     owner |-> owner, mint |-> mint, programId |-> Token2022ProgramId]

Key(pubkey, isSigner, isWritable) ==
    [pubkey |-> pubkey, isSigner |-> isSigner, isWritable |-> isWritable]

\* a variant that lists the tokens from the last to the first
RECURSIVE TokenKeysLastFirst(_, _)
TokenKeysLastFirst(tokens, owner) ==
    IF tokens = <<>> THEN <<>>
    ELSE TokenKeysLastFirst(Tail(tokens), owner)
         \o <<Key(AssociatedTokenAddress(Head(tokens).tokenMint, owner), FALSE, TRUE),
              Key(Head(tokens).tokenMint, FALSE, FALSE)>>

RECURSIVE TokenKeys(_, _)
TokenKeys(tokens, owner) ==
    IF tokens = <<>> THEN <<>>
    ELSE <<Key(AssociatedTokenAddress(Head(tokens).tokenMint, owner), FALSE, TRUE),
           Key(Head(tokens).tokenMint, FALSE, FALSE)>>
         \o TokenKeys(Tail(tokens), owner)

encodeCCIPMessage(cfg) ==
    [receiver |-> cfg.evmReceiverAddress, tokenAmounts |-> cfg.tokenAmounts]

buildCCIPSendInstruction(owner, cfg) ==
    [kind |-> "ccipSend",
     keys |-> <<Key(owner, TRUE, TRUE), Key(RouterProgramId, FALSE, FALSE),
                Key(FeeQuoterProgramId, FALSE, FALSE), Key(SystemProgramId, FALSE, FALSE)>>
              \o TokenKeys(cfg.tokenAmounts, owner),
     programId |-> RouterProgramId,
     data |-> encodeCCIPMessage(cfg)]

ExplorerUrl(sig) == <<"https://explorer.solana.com/tx/", sig, "?cluster=devnet">>
CcipExplorerUrl(messageId) == <<"https://ccip.chain.link/msg/", messageId>>

TransferResult(sig, messageId) ==
    [signature |-> sig, messageId |-> messageId,
     explorerUrl |-> ExplorerUrl(sig), ccipExplorerUrl |-> CcipExplorerUrl(messageId)]

\* A decimal number units * 10^exp10, kept exactly and in lowest terms; the
\* double-precision rounding of the JavaScript arithmetic is not modelled.
RECURSIVE Dec(_, _)
Dec(n, q) ==
    IF n = 0 THEN [units |-> 0, exp10 |-> 0]
    ELSE IF n % 10 = 0 THEN Dec(n \div 10, q + 1)
    ELSE [units |-> n, exp10 |-> q]

DecAdd(a, b) ==
    LET q == Min(a.exp10, b.exp10)
    IN  Dec(a.units * Pow10(a.exp10 - q) + b.units * Pow10(b.exp10 - q), q)

DecTimesPow10(a, k) == Dec(a.units, a.exp10 + k)

\* Math.floor
DecFloor(a) == IF a.exp10 >= 0 THEN a ELSE Dec(a.units \div Pow10(0 - a.exp10), 0)

\* const baseFee = 0.002
BaseFee == Dec(2, -3)
\* tokenAmount * 0.0001
VariableFeeExp == -4
\* LAMPORTS_PER_SOL = 10^9
LamportsPerSolExp == 9

\* config.tokenAmounts[0]?.amount || "0"
FirstAmountOrZero(tokenAmounts) ==
    IF tokenAmounts = <<>> \/ tokenAmounts[1].amount = <<>> THEN <<"0">>
    ELSE tokenAmounts[1].amount

\* totalFeeInSol and its floor in lamports
FeeOfTotal(total) ==
    [kind |-> "num", neg |-> FALSE, feeInSol |-> total,
     feeInLamports |-> DecFloor(DecTimesPow10(total, LamportsPerSolExp))]

\* the estimate for a parsed amount: NaN or an infinity when the amount reads so
FeeOfParsed(x) ==
    IF x.kind = "num"
    THEN FeeOfTotal(DecAdd(BaseFee, Dec(IF x.neg THEN 0 - x.mant ELSE x.mant,
                                        x.exp - x.scale + VariableFeeExp)))
    ELSE [kind |-> x.kind, neg |-> x.neg, feeInSol |-> Dec(0, 0),
          feeInLamports |-> Dec(0, 0)]

\* a variant that reads the last token amount of the list
EstimateFeeOfLastToken(cfg) ==
    FeeOfParsed(ParseFloat(FirstAmountOrZero(
        IF cfg.tokenAmounts = <<>> THEN <<>>
        ELSE <<cfg.tokenAmounts[Len(cfg.tokenAmounts)]>>)))

\* the estimate both fee functions compute: baseFee + tokenAmount * 0.0001 in
\* SOL, and its floor in lamports
EstimateFee(cfg) == FeeOfParsed(ParseFloat(FirstAmountOrZero(cfg.tokenAmounts)))

\* calculateCCIPFees(connection, svmConfig, config), of the orchestrator
calculateCCIPFees(cfg) == EstimateFee(cfg)

\* calculateCCIPFee(config), the exported estimator
calculateCCIPFee(cfg) == EstimateFee(cfg)


\* ------------------------------------------------------------------ ccip-config
\* enum ChainId
ChainId ==
    {"ethereum-sepolia", "base-sepolia", "optimism-sepolia", "bsc-testnet", "arbitrum-sepolia",
     "solana-devnet", "sonic-blaze"}

\* a variant in which two chains share a selector
ChainSelectorsClash ==
    [c \in ChainId |->
      CASE
              c = "ethereum-sepolia" -> <<"1", "6", "0", "1", "5", "2", "8", "6", "6", "0", "1", "7", "5", "7", "8", "2", "5", "7", "5", "3">>
           [] c = "base-sepolia" -> <<"1", "0", "3", "4", "4", "9", "7", "1", "2", "3", "5", "8", "7", "4", "4", "6", "5", "0", "8", "0">>
           [] c = "optimism-sepolia" -> <<"5", "2", "2", "4", "4", "7", "3", "2", "7", "7", "2", "3", "6", "3", "3", "1", "2", "9", "5">>
           [] c = "bsc-testnet" -> <<"1", "3", "2", "6", "4", "6", "6", "8", "1", "8", "7", "7", "7", "1", "7", "7", "0", "6", "1", "9">>
           [] c = "arbitrum-sepolia" -> <<"3", "4", "7", "8", "4", "8", "7", "2", "3", "8", "5", "2", "4", "5", "1", "2", "1", "0", "6">>
           [] c = "solana-devnet" -> <<"1", "6", "4", "2", "3", "7", "2", "1", "7", "1", "7", "0", "8", "7", "8", "1", "1", "5", "5", "1">>
           [] c = "sonic-blaze" -> <<"1", "6", "0", "1", "5", "2", "8", "6", "6", "0", "1", "7", "5", "7", "8", "2", "5", "7", "5", "3">>]

\* CHAIN_SELECTORS: the BigInt of each chain, as its decimal digits
CHAIN_SELECTORS ==
    [c \in ChainId |->
      CASE
              c = "ethereum-sepolia" -> <<"1", "6", "0", "1", "5", "2", "8", "6", "6", "0", "1", "7", "5", "7", "8", "2", "5", "7", "5", "3">>
           [] c = "base-sepolia" -> <<"1", "0", "3", "4", "4", "9", "7", "1", "2", "3", "5", "8", "7", "4", "4", "6", "5", "0", "8", "0">>
           [] c = "optimism-sepolia" -> <<"5", "2", "2", "4", "4", "7", "3", "2", "7", "7", "2", "3", "6", "3", "3", "1", "2", "9", "5">>
           [] c = "bsc-testnet" -> <<"1", "3", "2", "6", "4", "6", "6", "8", "1", "8", "7", "7", "7", "1", "7", "7", "0", "6", "1", "9">>
           [] c = "arbitrum-sepolia" -> <<"3", "4", "7", "8", "4", "8", "7", "2", "3", "8", "5", "2", "4", "5", "1", "2", "1", "0", "6">>
           [] c = "solana-devnet" -> <<"1", "6", "4", "2", "3", "7", "2", "1", "7", "1", "7", "0", "8", "7", "8", "1", "1", "5", "5", "1">>
           [] c = "sonic-blaze" -> <<"3", "6", "7", "6", "8", "7", "1", "2", "3", "7", "4", "7", "9", "4", "4", "9", "2", "6", "8">>]

\* SVM_CONFIGS[ChainId.SOLANA_DEVNET], the fields the transfer reads
SvmConfig ==
    [id |-> "solana-devnet", name |-> "Solana Devnet", routerProgramId |-> RouterProgramId,
     feeQuoterProgramId |-> FeeQuoterProgramId, systemProgramId |-> SystemProgramId]
NoSvmConfig ==
    [id |-> Null, name |-> Null, routerProgramId |-> Null, feeQuoterProgramId |-> Null,
     systemProgramId |-> Null]

\* getCCIPSVMConfig(chainId): the configuration, or the Error it throws
getCCIPSVMConfig(chainId) ==
    IF chainId # "solana-devnet"
    THEN [threw |-> TRUE, error |-> Err(<<"Unsupported SVM chain ID: ", chainId>>),
          config |-> NoSvmConfig]
    ELSE [threw |-> FALSE, error |-> NonErr, config |-> SvmConfig]

\* DESTINATION_CHAINS of the form
DESTINATION_CHAINS ==
    <<[id |-> "ethereum-sepolia", name |-> "Ethereum Sepolia",
       selector |-> CHAIN_SELECTORS["ethereum-sepolia"]],
      [id |-> "base-sepolia", name |-> "Base Sepolia",
       selector |-> CHAIN_SELECTORS["base-sepolia"]],
      [id |-> "arbitrum-sepolia", name |-> "Arbitrum Sepolia",
       selector |-> CHAIN_SELECTORS["arbitrum-sepolia"]]>>

\* the entries of DESTINATION_CHAINS that chain.id === destinationChain selects
RECURSIVE DestinationsWithId(_, _)
DestinationsWithId(chains, id) ==
    IF chains = <<>> THEN <<>>
    ELSE IF Head(chains).id = id THEN <<Head(chains)>> \o DestinationsWithId(Tail(chains), id)
    ELSE DestinationsWithId(Tail(chains), id)

\* ------------------------------------------------------------------ state
VARIABLES
    tokenLedger,    \* associated token account -> whether it exists, and its balance
    pc,             \* where the current executeRealCCIPTransfer call stands
    wallet,         \* options.wallet of the current call
    config,         \* options.config of the current call
    computeUnits,   \* options.computeUnits of the current call
    trace,          \* the functions and collaborators the call has called, in order
    tokIdx,         \* the index of the for loops over config.tokenAmounts
    checked,        \* what validateTokenBalances saw for each token it looked at
    transaction,    \* the Transaction being built, then signed
    signature,      \* the id connection.sendRawTransaction returned
    answers,        \* history: how each collaborator answered the call, in order
    outcome         \* how the call ended: nothing yet, a result, or a thrown Error

VARIABLES
    nativeLedger,   \* account -> its native balance, in lamports
    adapter,        \* what useWallet() gives: connected, publicKey, signTransaction or not
    receiverAddress, tokenAmount,   \* the form fields
    addressError,   \* the validation state of the receiver address
    solBalance,     \* the native balance the form last fetched, unknown at first
    isLoading,
    transferResult, \* <<>> for null, or the one result on display
    toast,          \* the title of the last toast shown
    balanceFetches, \* the fetchBalance calls in flight, by account
    hpc,            \* where handleTransfer stands
    hPublicKey,     \* the publicKey handleTransfer was rendered with
    estimatedFee    \* the fee estimate on display

VARIABLES
    lib             \* a library function called on its own: its input and its results

formVars == <<nativeLedger, adapter, receiverAddress, tokenAmount, addressError, solBalance,
              isLoading, transferResult, toast, balanceFetches, hpc, hPublicKey, estimatedFee>>
execVars == <<pc, wallet, config, computeUnits, trace, tokIdx, checked, transaction,
              signature, answers, outcome>>
vars == <<tokenLedger, execVars, formVars, lib>>

TokenAccounts == {AssociatedTokenAddress(m, a) : m \in Mints, a \in Accounts}

NoConfig == [evmReceiverAddress |-> <<>>, tokenAmounts |-> <<>>]
NoWallet == [publicKey |-> Null, canSign |-> FALSE]
NoTransaction == [recentBlockhash |-> Null, feePayer |-> Null, instructions |-> <<>>,
                  signed |-> FALSE]
NoOutcome == [status |-> "none"]

Configs == [evmReceiverAddress : ApiReceivers, tokenAmounts : TokenLists]

Resolved == pc \in {"done", "failed"}

\* one entry of the history: the step of the call, the collaborator's operation,
\* whether it returned (or threw), and the value it returned when that matters
Answer(step, call, ok, value) == [step |-> step, call |-> call, ok |-> ok, value |-> value]

\* the catch of executeRealCCIPTransfer: whatever was thrown at `step` becomes
\* a new Error with the prefixed message (`at` records the step, for the properties)
Failure(step, e) ==
    [status |-> "failure", at |-> step,
     message |-> <<"CCIP transfer failed: ">> \o ErrorMessage(e)]

ThrowAt(step, e) ==
    /\ pc' = "failed"
    /\ outcome' = Failure(step, e)

\* ------------------------------------------------------------------ executeRealCCIPTransfer
\* a variant that goes from validation straight to the builder
AfterValidationSkipsFee == "build"

\* the step that follows a validateTokenBalances that returned
AfterValidation == "fee"

\* The call itself, up to its first await: the publicKey guard, which throws
\* outside the try, then validateTokenBalances is entered.
ExecuteStart(w, c, units) ==
    /\ wallet' = w
    /\ config' = c
    /\ computeUnits' = units
    /\ tokIdx' = 1
    /\ checked' = <<>>
    /\ transaction' = NoTransaction
    /\ signature' = <<>>
    /\ answers' = <<>>
    /\ IF w.publicKey = Null
       THEN /\ pc' = "failed"
            /\ trace' = <<>>
            /\ outcome' = [status |-> "failure", at |-> "entry",
                           message |-> <<"Wallet not connected">>]
       ELSE /\ pc' = IF c.tokenAmounts = <<>> THEN AfterValidation ELSE "validate"
            /\ trace' = <<"validateTokenBalances">>
            /\ outcome' = NoOutcome

\* a caller other than the form: any wallet object, any config
ApiCall ==
    /\ pc = "idle"
    /\ hpc = "idle"
    /\ \E w \in Wallets, c \in Configs : ExecuteStart(w, c, DefaultComputeUnits)
    /\ UNCHANGED <<lib, formVars, tokenLedger>>

\* a variant that never compares the balance with the required amount
TokenCheckErrorNoCompare(tok, answer) ==
    IF answer.kind = "error" THEN answer.error
    ELSE IF ~BigIntParse(tok.amount).ok
         THEN Err(<<"Cannot convert ">> \o tok.amount \o <<" to a BigInt">>)
    ELSE NonErr

\* a variant that lets a token pass when its account cannot be read
TokenCheckErrorPassesUnread(tok, answer) ==
    LET required == BigIntParse(tok.amount)
    IN  IF answer.kind = "error" THEN NonErr
        ELSE IF ~required.ok
             THEN Err(<<"Cannot convert ">> \o tok.amount \o <<" to a BigInt">>)
        ELSE IF answer.amount < required.value
             THEN Err(<<"Insufficient token balance. Required: ">> \o IntToStr(required.value)
                      \o <<", Available: ">> \o IntToStr(answer.amount))
        ELSE NonErr

\* what the body of the try in validateTokenBalances throws for one token, given
\* the answer of getAccount: <<>> when the token passes
TokenCheckError(tok, answer) ==
    LET required == BigIntParse(tok.amount)
    IN  IF answer.kind = "error" THEN answer.error
        ELSE IF ~required.ok
             THEN Err(<<"Cannot convert ">> \o tok.amount \o <<" to a BigInt">>)
        ELSE IF answer.amount < required.value
             THEN Err(<<"Insufficient token balance. Required: ">> \o IntToStr(required.value)
                      \o <<", Available: ">> \o IntToStr(answer.amount))
        ELSE NonErr

\* the catch of validateTokenBalances
TokenCheckRethrown(tok, e) ==
    IF e.isError /\ Includes(e.message, <<"could", "not", "find", "account">>)
    THEN Err(<<"Token account not found for mint: ", tok.tokenMint>>)
    ELSE e

\* the answers getAccount can give for an account in its current state
GetAccountAnswers(ata) ==
    {[kind |-> "error", error |-> NetworkError, amount |-> 0]}
        \cup (IF tokenLedger[ata].exists
              THEN {[kind |-> "found", error |-> NonErr, amount |-> tokenLedger[ata].amount]}
              ELSE {[kind |-> "error", error |-> e, amount |-> 0] : e \in MissingAccountErrors})

\* one round of the loop of validateTokenBalances
ValidateToken ==
    /\ pc = "validate"
    /\ LET tok == config.tokenAmounts[tokIdx]
           ata == AssociatedTokenAddress(tok.tokenMint, wallet.publicKey)
       IN  \E answer \in GetAccountAnswers(ata) :
             LET e == TokenCheckError(tok, answer)
             IN  /\ trace' = trace \o <<"getAccount">>
                 /\ answers' = Append(answers, Answer("validate", "getAccount",
                                                      answer.kind = "found", <<>>))
                 /\ checked' = Append(checked, [mint |-> tok.tokenMint, amount |-> tok.amount,
                                                found |-> answer.kind = "found",
                                                existed |-> tokenLedger[ata].exists,
                                                available |-> answer.amount])
                 /\ IF e = NonErr
                    THEN /\ tokIdx' = tokIdx + 1
                         /\ pc' = IF tokIdx = Len(config.tokenAmounts) THEN AfterValidation
                                 ELSE "validate"
                         /\ UNCHANGED outcome
                    ELSE /\ ThrowAt("validate", TokenCheckRethrown(tok, e))
                         /\ UNCHANGED tokIdx
    /\ UNCHANGED <<lib, formVars, tokenLedger, wallet, config, computeUnits, transaction, signature>>

\* calculateCCIPFees: no await inside, nothing thrown
CalculateFees ==
    /\ pc = "fee"
    /\ pc' = "build"
    /\ trace' = trace \o <<"calculateCCIPFees">>
    /\ UNCHANGED <<lib, formVars, tokenLedger, wallet, config, computeUnits, tokIdx, checked, transaction,
                   signature, answers, outcome>>

\* a variant that puts the send instruction in front
WithSendInstructionFirst(tx) ==
    [tx EXCEPT !.instructions = <<buildCCIPSendInstruction(wallet.publicKey, config)>> \o @]

\* the end of buildCCIPTransaction: the send instruction goes last
WithSendInstruction(tx) ==
    [tx EXCEPT !.instructions = Append(@, buildCCIPSendInstruction(wallet.publicKey, config))]

\* buildCCIPTransaction up to the loop: the blockhash, the fee payer, the compute budget
BuildStart ==
    /\ pc = "build"
    /\ trace' = trace \o <<"buildCCIPTransaction", "getLatestBlockhash">>
    /\ \/ /\ ThrowAt("build", NetworkError)
          /\ answers' = Append(answers, Answer("build", "getLatestBlockhash", FALSE, <<>>))
          /\ UNCHANGED <<transaction, tokIdx>>
       \/ \E bh \in Blockhashes :
            LET tx == [recentBlockhash |-> bh, feePayer |-> wallet.publicKey,
                       instructions |-> <<ComputeBudgetInstruction(computeUnits)>>,
                       signed |-> FALSE]
            IN  /\ tokIdx' = 1
                /\ answers' = Append(answers, Answer("build", "getLatestBlockhash", TRUE, <<>>))
                /\ IF config.tokenAmounts = <<>>
                   THEN /\ transaction' = WithSendInstruction(tx)
                        /\ pc' = "sign"
                   ELSE /\ transaction' = tx
                        /\ pc' = "ata"
                /\ UNCHANGED outcome
    /\ UNCHANGED <<lib, formVars, tokenLedger, wallet, config, computeUnits, checked, signature>>

\* one round of the loop of buildCCIPTransaction: any rejection of getAccount
\* is taken to mean that the account has to be created
BuildToken ==
    /\ pc = "ata"
    /\ LET tok == config.tokenAmounts[tokIdx]
           ata == AssociatedTokenAddress(tok.tokenMint, wallet.publicKey)
       IN  \E answer \in GetAccountAnswers(ata) :
             LET tx == IF answer.kind = "found" THEN transaction
                       ELSE [transaction EXCEPT !.instructions =
                               Append(@, CreateATAInstruction(wallet.publicKey, ata,
                                                              wallet.publicKey, tok.tokenMint))]
             IN  /\ trace' = trace \o <<"getAccount">>
                 /\ answers' = Append(answers, Answer("ata", "getAccount",
                                                      answer.kind = "found", <<>>))
                 /\ tokIdx' = tokIdx + 1
                 /\ IF tokIdx = Len(config.tokenAmounts)
                    THEN /\ transaction' = WithSendInstruction(tx)
                         /\ pc' = "sign"
                    ELSE /\ transaction' = tx
                         /\ pc' = "ata"
    /\ UNCHANGED <<lib, formVars, tokenLedger, wallet, config, computeUnits, checked, signature, outcome>>

\* a variant that swallows the rejection and goes on to submit
SignRejectedThenSubmit(e) ==
    /\ pc' = "submit"
    /\ UNCHANGED outcome

\* where a rejection of wallet.signTransaction leads
SignRejected(e) == ThrowAt("sign", e)

\* wallet.signTransaction(transaction); a wallet object without the method
\* makes the call expression itself throw
SignTransaction ==
    /\ pc = "sign"
    /\ IF ~wallet.canSign
       THEN /\ ThrowAt("sign", NotAFunction)
            /\ UNCHANGED <<trace, transaction, answers>>
       ELSE /\ trace' = trace \o <<"signTransaction">>
            /\ \/ /\ \E e \in SignRejections : SignRejected(e)
                  /\ answers' = Append(answers, Answer("sign", "signTransaction", FALSE, <<>>))
                  /\ UNCHANGED transaction
               \/ /\ transaction' = [transaction EXCEPT !.signed = TRUE]
                  /\ answers' = Append(answers, Answer("sign", "signTransaction", TRUE, <<>>))
                  /\ pc' = "submit"
                  /\ UNCHANGED outcome
    /\ UNCHANGED <<lib, formVars, tokenLedger, wallet, config, computeUnits, tokIdx, checked, signature>>

\* connection.sendRawTransaction(signedTransaction.serialize(), ...)
SendRawTransaction ==
    /\ pc = "submit"
    /\ trace' = trace \o <<"sendRawTransaction">>
    /\ \/ /\ \E e \in SubmitRejections : ThrowAt("submit", e)
          /\ answers' = Append(answers, Answer("submit", "sendRawTransaction", FALSE, <<>>))
          /\ UNCHANGED signature
       \/ /\ \E sig \in Signatures :
               /\ signature' = sig
               /\ answers' = Append(answers, Answer("submit", "sendRawTransaction", TRUE, sig))
          /\ pc' = "confirm"
          /\ UNCHANGED outcome
    /\ UNCHANGED <<lib, formVars, tokenLedger, wallet, config, computeUnits, tokIdx, checked, transaction>>

\* connection.confirmTransaction(signature, "confirmed") is called and awaited
ConfirmTransaction ==
    /\ pc = "confirm"
    /\ pc' = "confirming"
    /\ trace' = trace \o <<"confirmTransaction">>
    /\ UNCHANGED <<lib, formVars, tokenLedger, wallet, config, computeUnits, tokIdx, checked, transaction,
                   signature, answers, outcome>>

\* a variant that submits again when the confirmation fails
ConfirmFailedResubmits(e) ==
    /\ pc' = "submit"
    /\ UNCHANGED outcome

\* where a rejection of connection.confirmTransaction leads
ConfirmFailed(e) == ThrowAt("confirm", e)

\* the awaited confirmation settles: the promise resolves
ConfirmResolved ==
    /\ pc = "confirming"
    /\ pc' = "extract"
    /\ answers' = Append(answers, Answer("confirm", "confirmTransaction", TRUE, <<>>))
    /\ UNCHANGED <<lib, formVars, tokenLedger, wallet, config, computeUnits, trace, tokIdx, checked,
                   transaction, signature, outcome>>

\* the awaited confirmation settles: the promise rejects
ConfirmRejected ==
    /\ pc = "confirming"
    /\ \E e \in ConfirmRejections : ConfirmFailed(e)
    /\ answers' = Append(answers, Answer("confirm", "confirmTransaction", FALSE, <<>>))
    /\ UNCHANGED <<lib, formVars, tokenLedger, wallet, config, computeUnits, trace, tokIdx, checked,
                   transaction, signature>>

\* a variant that always reports the derived id, whatever the correlator found
ReturnedResultDerivedId(sig, messageId) == TransferResult(sig, generateMessageId(sig))

\* the object executeRealCCIPTransfer returns
ReturnedResult(sig, messageId) == TransferResult(sig, messageId)

\* extractMessageId and the return of the result
ExtractAndReturn ==
    /\ pc = "extract"
    /\ trace' = trace \o <<"extractMessageId", "getTransaction">>
    /\ \E answer \in GetTransactionOutcomes :
         LET messageId == extractMessageId(answer, signature)
         IN  /\ answers' = Append(answers, Answer("extract", "getTransaction",
                                                  answer.kind # "throws", <<>>))
             /\ outcome' = [status |-> "success",
                            logs |-> [kind |-> IF answer.kind \in {"throws", "logs"}
                                               THEN answer.kind ELSE "missing",
                                      qualifies |-> \E i \in 1..Len(answer.logs) :
                                          /\ LogHasTag(answer.logs[i])
                                          /\ LogMessageIdMatch(answer.logs[i]) # <<>>],
                            extracted |-> messageId,
                            result |-> ReturnedResult(signature, messageId)]
    /\ pc' = "done"
    /\ UNCHANGED <<lib, formVars, tokenLedger, wallet, config, computeUnits, tokIdx, checked, transaction,
                   signature>>

\* the rejected or fulfilled promise reaches the caller, and the call is over
ClearCall ==
    /\ pc' = "idle"
    /\ wallet' = NoWallet
    /\ config' = NoConfig
    /\ computeUnits' = DefaultComputeUnits
    /\ trace' = <<>>
    /\ tokIdx' = 1
    /\ checked' = <<>>
    /\ transaction' = NoTransaction
    /\ signature' = <<>>
    /\ answers' = <<>>
    /\ outcome' = NoOutcome

ApiReturn ==
    /\ Resolved
    /\ hpc = "idle"
    /\ ClearCall
    /\ UNCHANGED <<lib, formVars, tokenLedger>>

\* the ledger moves on its own: a token account is created, funded, emptied or closed
TokenLedgerChange ==
    /\ \E ata \in TokenAccounts, v \in AccountStates :
         /\ tokenLedger[ata] # v
         /\ tokenLedger' = [tokenLedger EXCEPT ![ata] = v]
    /\ UNCHANGED <<lib, execVars, formVars>>

ExecuteStep ==
    \/ ValidateToken
    \/ CalculateFees
    \/ BuildStart
    \/ BuildToken
    \/ SignTransaction
    \/ SendRawTransaction
    \/ ConfirmTransaction
    \/ ConfirmResolved
    \/ ConfirmRejected
    \/ ExtractAndReturn

\* ------------------------------------------------------------------ ccip-transfer-form
MaxFetches == 1     \* fetchBalance calls in flight at once

LamportsPerSol == 1000000000
\* CCIP_CONFIG.minSolRequired (0.005 SOL), in lamports
MinSolRequiredLamports == 5000000
CcipConfigComputeUnits == 1400000
BnMDecimals == 9

NativeBalances == {1000000, 10000000}

DefaultAmount == <<"0", ".", "0", "1">>
\* what the receiver field and the amount field can hold; the amount is an
\* input of type number, whose value is empty unless it reads as a number
FormReceivers == {DefaultReceiver, ShortReceiver}
FormAmounts == {DefaultAmount, <<>>, <<"-", "1">>}

Disconnected == [connected |-> FALSE, publicKey |-> Null, canSign |-> FALSE]
\* (`of` records the account the balance was fetched for, for the properties)
UnknownBalance == [known |-> FALSE, lamports |-> 0, of |-> Null]
KnownBalance(a, b) == [known |-> TRUE, lamports |-> b, of |-> a]
InvalidAddressFormat == "Invalid Ethereum address format"

\* what connection.getBalance can answer for an account
GetBalanceAnswers(a) ==
    {[ok |-> FALSE, lamports |-> 0], [ok |-> TRUE, lamports |-> nativeLedger[a]]}

\* a variant that asks for strictly more than the minimum
validateWalletBalanceStrictlyMore(answer, minRequired) ==
    IF answer.ok
    THEN [hasEnoughSol |-> answer.lamports > minRequired, balance |-> answer.lamports]
    ELSE [hasEnoughSol |-> FALSE, balance |-> 0]

\* validateWalletBalance: the balance, or "not enough, 0" when the query fails
\* (amounts are kept in lamports, where the code divides by LAMPORTS_PER_SOL)
validateWalletBalance(answer, minRequired) ==
    IF answer.ok
    THEN [hasEnoughSol |-> answer.lamports >= minRequired, balance |-> answer.lamports]
    ELSE [hasEnoughSol |-> FALSE, balance |-> 0]

RemoveAt(seq, i) == SubSeq(seq, 1, i - 1) \o SubSeq(seq, i + 1, Len(seq))

\* the wallet adapter connects an account; the balance effect starts a fetch
WalletConnect ==
    /\ ~adapter.connected
    /\ Len(balanceFetches) < MaxFetches
    /\ \E a \in DOMAIN nativeLedger, cs \in BOOLEAN :
         /\ adapter' = [connected |-> TRUE, publicKey |-> a, canSign |-> cs]
         /\ balanceFetches' = Append(balanceFetches, a)
    /\ UNCHANGED <<lib, estimatedFee, tokenLedger, execVars, nativeLedger, receiverAddress, tokenAmount,
                   addressError, solBalance, isLoading, transferResult, toast, hpc,
                   hPublicKey>>

\* the wallet adapter disconnects; the balance effect does nothing then
WalletDisconnect ==
    /\ adapter.connected
    /\ adapter' = Disconnected
    /\ UNCHANGED <<lib, estimatedFee, tokenLedger, execVars, nativeLedger, receiverAddress, tokenAmount,
                   addressError, solBalance, isLoading, transferResult, toast, balanceFetches,
                   hpc, hPublicKey>>

\* a fetchBalance of the balance effect completes
BalanceFetched ==
    /\ \E i \in 1..Len(balanceFetches) :
         \E answer \in GetBalanceAnswers(balanceFetches[i]) :
           /\ solBalance' =
                KnownBalance(balanceFetches[i],
                             validateWalletBalance(answer, MinSolRequiredLamports).balance)
           /\ balanceFetches' = RemoveAt(balanceFetches, i)
    /\ UNCHANGED <<lib, estimatedFee, tokenLedger, execVars, nativeLedger, adapter, receiverAddress, tokenAmount,
                   addressError, isLoading, transferResult, toast, hpc, hPublicKey>>

\* the ledger moves on its own: the native balance of an account changes
NativeLedgerChange ==
    /\ \E a \in DOMAIN nativeLedger, v \in NativeBalances :
         /\ nativeLedger[a] # v
         /\ nativeLedger' = [nativeLedger EXCEPT ![a] = v]
    /\ UNCHANGED <<lib, estimatedFee, tokenLedger, execVars, adapter, receiverAddress, tokenAmount, addressError,
                   solBalance, isLoading, transferResult, toast, balanceFetches, hpc,
                   hPublicKey>>

\* the request the fee effect builds from the form fields
FeeMessageConfig(receiver, amount) ==
    [evmReceiverAddress |-> receiver,
     tokenAmounts |-> <<TokenAmount("BnM", toRawTokenAmount(amount, BnMDecimals))>>]

\* setEstimatedFee(feeInSol) of the fee effect.  calculateCCIPFee awaits
\* nothing, so the continuation of the effect runs in the microtasks that
\* follow the effect, before the next event is handled.
FormFee(receiver, amount) ==
    LET fee == calculateCCIPFee(FeeMessageConfig(receiver, amount))
    IN  [kind |-> fee.kind, neg |-> fee.neg, feeInSol |-> fee.feeInSol]

\* the same, tabulated over the values the fields can hold
FormFees == [r \in FormReceivers, a \in FormAmounts |-> FormFee(r, a)]

\* the guard of the fee effect, on the values of the render it belongs to
FeeEffectRuns(receiver, amount, error) ==
    receiver # <<>> /\ amount # <<>> /\ error = Null

\* the address effect: an empty field leaves the error as it was
AddressErrorAfter(address, before) ==
    IF address = <<>> THEN before
    ELSE IF isValidEthereumAddress(address) THEN Null
    ELSE InvalidAddressFormat

\* the receiver field is edited, and the address effect runs
SetReceiverAddress ==
    /\ \E v \in FormReceivers :
         /\ v # receiverAddress
         /\ receiverAddress' = v
         /\ addressError' = AddressErrorAfter(v, addressError)
         /\ estimatedFee' =
              IF \/ FeeEffectRuns(v, tokenAmount, addressError)
                 \/ /\ AddressErrorAfter(v, addressError) # addressError
                    /\ FeeEffectRuns(v, tokenAmount, AddressErrorAfter(v, addressError))
              THEN FormFees[v, tokenAmount]
              ELSE estimatedFee
    /\ UNCHANGED <<lib, tokenLedger, execVars, nativeLedger, adapter, tokenAmount, solBalance,
                   isLoading, transferResult, toast, balanceFetches, hpc, hPublicKey>>

\* the amount field is edited
SetTokenAmount ==
    /\ \E v \in FormAmounts :
         /\ v # tokenAmount
         /\ tokenAmount' = v
         /\ estimatedFee' = IF FeeEffectRuns(receiverAddress, v, addressError)
                            THEN FormFees[receiverAddress, v] ELSE estimatedFee
    /\ UNCHANGED <<lib, tokenLedger, execVars, nativeLedger, adapter, receiverAddress, addressError,
                   solBalance, isLoading, transferResult, toast, balanceFetches, hpc,
                   hPublicKey>>

\* a variant of the button that stays enabled while a transfer is under way
ButtonDisabledWhileIdleOnly ==
    \/ ~adapter.connected
    \/ receiverAddress = <<>>
    \/ tokenAmount = <<>>
    \/ addressError # Null

\* the disabled attribute of the transfer button
ButtonDisabled ==
    \/ ~adapter.connected
    \/ isLoading
    \/ receiverAddress = <<>>
    \/ tokenAmount = <<>>
    \/ addressError # Null

\* the messageConfig handleTransfer prepares
MessageConfig ==
    [evmReceiverAddress |-> receiverAddress,
     tokenAmounts |-> <<TokenAmount("BnM", toRawTokenAmount(tokenAmount, BnMDecimals))>>]

\* the third guard of handleTransfer: a balance that was fetched and is short
KnownShortOfSol == solBalance.known /\ solBalance.lamports < MinSolRequiredLamports

\* a variant that leaves the earlier result on display
ResultOnStartKept == transferResult

\* setTransferResult(null), as handleTransfer starts a transfer
ResultOnStart == <<>>

\* a click on the transfer button: the guards of handleTransfer, then the call
HandleTransfer ==
    /\ ~ButtonDisabled
    /\ IF ~adapter.connected \/ adapter.publicKey = Null \/ ~adapter.canSign
       THEN /\ toast' = "Wallet Not Connected"
            /\ UNCHANGED <<execVars, isLoading, transferResult, hpc, hPublicKey>>
       ELSE IF receiverAddress = <<>> \/ tokenAmount = <<>> \/ addressError # Null
       THEN /\ toast' = "Invalid Input"
            /\ UNCHANGED <<execVars, isLoading, transferResult, hpc, hPublicKey>>
       ELSE IF KnownShortOfSol
       THEN /\ toast' = "Insufficient SOL"
            /\ UNCHANGED <<execVars, isLoading, transferResult, hpc, hPublicKey>>
       ELSE /\ isLoading' = TRUE
            /\ transferResult' = ResultOnStart
            /\ hpc' = "executing"
            /\ hPublicKey' = adapter.publicKey
            /\ ExecuteStart([publicKey |-> adapter.publicKey, canSign |-> TRUE],
                            MessageConfig, CcipConfigComputeUnits)
            /\ UNCHANGED toast
    /\ UNCHANGED <<lib, estimatedFee, tokenLedger, nativeLedger, adapter, receiverAddress, tokenAmount,
                   addressError, solBalance, balanceFetches>>

\* executeRealCCIPTransfer returned: the result is shown, the amount is reset
\* and the balance is fetched again
TransferSucceeded ==
    /\ hpc = "executing"
    /\ pc = "done"
    /\ transferResult' = <<outcome.result>>
    /\ toast' = "Transfer Initiated"
    /\ tokenAmount' = DefaultAmount
    /\ estimatedFee' =
         IF tokenAmount # DefaultAmount
            /\ FeeEffectRuns(receiverAddress, DefaultAmount, addressError)
         THEN FormFees[receiverAddress, DefaultAmount] ELSE estimatedFee
    /\ hpc' = "refreshing"
    /\ ClearCall
    /\ UNCHANGED <<lib, tokenLedger, nativeLedger, adapter, receiverAddress, addressError,
                   solBalance, isLoading, balanceFetches, hPublicKey>>

\* the balance fetched after a transfer arrives; then the finally block
BalanceRefreshed ==
    /\ hpc = "refreshing"
    /\ \E answer \in GetBalanceAnswers(hPublicKey) :
         solBalance' = KnownBalance(hPublicKey,
                                    validateWalletBalance(answer, MinSolRequiredLamports).balance)
    /\ isLoading' = FALSE
    /\ hpc' = "idle"
    /\ hPublicKey' = Null
    /\ UNCHANGED <<lib, estimatedFee, tokenLedger, execVars, nativeLedger, adapter, receiverAddress, tokenAmount,
                   addressError, transferResult, toast, balanceFetches>>

\* executeRealCCIPTransfer threw: the catch and the finally block
TransferFailed ==
    /\ hpc = "executing"
    /\ pc = "failed"
    /\ toast' = "Transfer Failed"
    /\ isLoading' = FALSE
    /\ hpc' = "idle"
    /\ hPublicKey' = Null
    /\ ClearCall
    /\ UNCHANGED <<lib, estimatedFee, tokenLedger, nativeLedger, adapter, receiverAddress, tokenAmount,
                   addressError, solBalance, transferResult, balanceFetches>>

\* no library function is under study
NoLibCall == [fn |-> "none"]

\* the program before any call, with the accounts that hold a native balance:
\* the ledgers, no call under way, the form as mounted
MountedWith(accounts) ==
    /\ tokenLedger \in [TokenAccounts -> AccountStates]
    /\ pc = "idle"
    /\ wallet = NoWallet
    /\ config = NoConfig
    /\ computeUnits = DefaultComputeUnits
    /\ trace = <<>>
    /\ tokIdx = 1
    /\ checked = <<>>
    /\ transaction = NoTransaction
    /\ signature = <<>>
    /\ answers = <<>>
    /\ outcome = NoOutcome
    /\ nativeLedger \in [accounts -> NativeBalances]
    /\ adapter = Disconnected
    /\ receiverAddress = DefaultReceiver
    /\ tokenAmount = DefaultAmount
    /\ addressError = Null
    /\ solBalance = UnknownBalance
    /\ isLoading = FALSE
    /\ transferResult = <<>>
    /\ toast = ""
    /\ balanceFetches = <<>>
    /\ hpc = "idle"
    /\ hPublicKey = Null
    /\ estimatedFee = FormFees[DefaultReceiver, DefaultAmount]

ProgramInit == MountedWith(Accounts)

Init ==
    /\ ProgramInit
    /\ lib = NoLibCall

\* executeRealCCIPTransfer under any caller
Next ==
    \/ ApiCall
    \/ ApiReturn
    \/ ExecuteStep
    \/ TokenLedgerChange

Spec == Init /\ [][Next]_vars

\* the transfer form and the calls it makes
FormNext ==
    \/ WalletConnect
    \/ WalletDisconnect
    \/ BalanceFetched
    \/ NativeLedgerChange
    \/ SetReceiverAddress
    \/ SetTokenAmount
    \/ HandleTransfer
    \/ TransferSucceeded
    \/ BalanceRefreshed
    \/ TransferFailed
    \/ ExecuteStep

\* the form starts with the sender's token accounts funded
FormInit ==
    /\ Init
    /\ \A ata \in TokenAccounts : tokenLedger[ata] = Holding(10000000)

FormSpec == FormInit /\ [][FormNext]_vars

\* the same machine, with the fairness the event loop gives: a continuation
\* runs once its promise has settled.  Every collaborator is taken to answer,
\* except that nothing obliges connection.confirmTransaction to settle.
FairSpec ==
    /\ Spec
    /\ WF_vars(ValidateToken)
    /\ WF_vars(CalculateFees)
    /\ WF_vars(BuildStart)
    /\ WF_vars(BuildToken)
    /\ WF_vars(SignTransaction)
    /\ WF_vars(SendRawTransaction)
    /\ WF_vars(ConfirmTransaction)
    /\ WF_vars(ExtractAndReturn)

\* the accounts the wallet adapter can connect, one after the other
AdapterAccounts == Accounts \cup {"Acct2"}

\* the wallet and the balance effect of the form, with more than one account
BalanceInit ==
    /\ MountedWith(AdapterAccounts)
    /\ lib = NoLibCall
    /\ \A ata \in TokenAccounts : tokenLedger[ata] = Holding(10000000)

BalanceNext ==
    \/ WalletConnect
    \/ WalletDisconnect
    \/ BalanceFetched
    \/ NativeLedgerChange

BalanceSpec == BalanceInit /\ [][BalanceNext]_vars

\* the form, with the fairness the event loop gives: the continuation of
\* handleTransfer runs once the promise it awaits has settled, and the balance
\* query answers.  As in FairSpec, nothing obliges connection.confirmTransaction
\* to settle.
FairFormSpec ==
    /\ FormSpec
    /\ WF_vars(ValidateToken)
    /\ WF_vars(CalculateFees)
    /\ WF_vars(BuildStart)
    /\ WF_vars(BuildToken)
    /\ WF_vars(SignTransaction)
    /\ WF_vars(SendRawTransaction)
    /\ WF_vars(ConfirmTransaction)
    /\ WF_vars(ExtractAndReturn)
    /\ WF_vars(TransferSucceeded)
    /\ WF_vars(BalanceRefreshed)
    /\ WF_vars(TransferFailed)

\* ------------------------------------------------------------------ use-wallet
\* the address the mock wallet connects
MockAddress == "0x742d35Cc6634C0532925a3b8D4C9db96590c6C87"

\* localStorage as the hook uses it: two keys, each holding a string or nothing
NoStorage == [key \in {"wallet_connected", "wallet_address"} |-> Null]

\* connect(): the state is set, then the two keys are written in turn inside
\* the try; setItem throws when the storage refuses a write, and the catch logs
\* it. `accepted` is the number of writes the storage accepts before it refuses one.
connect(hook, accepted) ==
    LET first == IF accepted >= 1
                 THEN [hook.storage EXCEPT !["wallet_connected"] = "true"]
                 ELSE hook.storage
        second == IF accepted >= 2
                  THEN [first EXCEPT !["wallet_address"] = MockAddress]
                  ELSE first
    IN  [isConnected |-> TRUE, address |-> MockAddress, storage |-> second]

\* disconnect(): the state is cleared and both keys are removed
disconnect(hook) ==
    [isConnected |-> FALSE, address |-> Null,
     storage |-> [[hook.storage EXCEPT !["wallet_connected"] = Null]
                    EXCEPT !["wallet_address"] = Null]]

\* useWallet() mounted over a storage: the initial state, then the mount effect,
\* which restores the connection when both keys hold a non-empty string
useWallet(storage) ==
    LET connected == storage["wallet_connected"]
        savedAddress == storage["wallet_address"]
        truthy(v) == v # Null /\ v # ""
    IN  IF truthy(connected) /\ truthy(savedAddress)
        THEN [isConnected |-> TRUE, address |-> savedAddress, storage |-> storage]
        ELSE [isConnected |-> FALSE, address |-> Null, storage |-> storage]

\* ------------------------------------------------------------------ library calls
MaxCalls == 2       \* calls of one library function in a row
MaxHookOps == 4     \* operations on one wallet hook

RawNegative == <<"-", "1", "0", "0", "0", "0", "0", "0", "0", "0", "0">>
Unparsable == <<"a", "b", "c">>
\* the amount strings a fee request may carry
FeeAmounts == {RawTen, RawFraction, RawNegative, Unparsable, <<>>}
FeeTokenLists ==
    {<<>>} \cup {<<TokenAmount("BnM", a)>> : a \in FeeAmounts}
           \cup {<<TokenAmount("BnM", a), TokenAmount("LINK", b)>> :
                    a \in FeeAmounts, b \in {RawTen, RawFraction}}
FeeConfigs == [evmReceiverAddress : {DefaultReceiver}, tokenAmounts : FeeTokenLists]

\* the minSolRequired a caller of validateWalletBalance may pass
MinRequiredValues == {MinSolRequiredLamports, 10000000}

\* what connection.getTransaction can answer for a confirmed transaction
\* whose logs are `logs`
GetTransactionAnswers(logs) ==
    {[kind |-> k, logs |-> <<>>] : k \in {"throws", "null", "noMeta", "noLogs"}}
        \cup {[kind |-> "logs", logs |-> logs]}

\* extractMessageId(connection, signature) is called for a confirmed transaction
ExtractMessageIdCall ==
    /\ lib.fn = "extractMessageId"
    /\ Len(lib.results) < MaxCalls
    /\ \E answer \in GetTransactionAnswers(lib.logs) :
         lib' = [lib EXCEPT !.results =
                    Append(@, [fetch |-> answer.kind,
                               messageId |-> extractMessageId(answer, lib.signature)])]
    /\ UNCHANGED <<tokenLedger, execVars, formVars>>

\* one of the two fee functions is called with a request
FeeCall ==
    /\ lib.fn = "calculateCCIPFee"
    /\ Len(lib.results) < MaxCalls
    /\ \E cfg \in FeeConfigs :
         \/ lib' = [lib EXCEPT !.results =
                       Append(@, [fn |-> "calculateCCIPFee", config |-> cfg,
                                  fee |-> calculateCCIPFee(cfg)])]
         \/ lib' = [lib EXCEPT !.results =
                       Append(@, [fn |-> "calculateCCIPFees", config |-> cfg,
                                  fee |-> calculateCCIPFees(cfg)])]
    /\ UNCHANGED <<tokenLedger, execVars, formVars>>

\* validateWalletBalance(connection, publicKey, minSolRequired) is called
BalanceCall ==
    /\ lib.fn = "validateWalletBalance"
    /\ Len(lib.results) < MaxCalls
    /\ \E a \in Accounts, minRequired \in MinRequiredValues :
         \E answer \in GetBalanceAnswers(a) :
           lib' = [lib EXCEPT !.results =
                      Append(@, [answer |-> answer, minRequired |-> minRequired,
                                 returned |-> validateWalletBalance(answer, minRequired)])]
    /\ UNCHANGED <<tokenLedger, execVars, formVars>>

\* the amounts a caller may hand to toRawTokenAmount, and the decimals
DisplayAmounts ==
    {<<"0", ".", "0", "1">>, <<"1", ".", "5">>, <<"0">>, <<"1">>,
     <<"0", ".", "0", "0", "0", "0", "0", "1">>,
     <<"0", ".", "0", "0", "0", "0", "0", "0", "1">>,
     <<"0", ".", "1", "2", "3", "4", "5", "6", "7", "8", "9">>,
     Unparsable, <<"-", "1", ".", "5">>, InfinityChars}
DecimalsValues == {0, 6, BnMDecimals}

\* toRawTokenAmount(amount, decimals), then formatTokenAmount of what it returned
AmountCall ==
    /\ lib.fn = "toRawTokenAmount"
    /\ Len(lib.results) < MaxCalls
    /\ \E amount \in DisplayAmounts, decimals \in DecimalsValues :
         lib' = [lib EXCEPT !.results =
                    Append(@, [amount |-> amount, decimals |-> decimals,
                               raw |-> toRawTokenAmount(amount, decimals),
                               display |-> formatTokenAmount(
                                   toRawTokenAmount(amount, decimals), decimals)])]
    /\ UNCHANGED <<tokenLedger, execVars, formVars>>

\* the strings a caller may hand to isValidEthereumAddress
\* (a valid one, a short one, none, one without the prefix, one with a letter
\* that is no hex digit, one of 41 digits, one with 0X, one with a line end)
AddressInputs ==
    {DefaultReceiver, ShortReceiver, <<>>,
     <<"9", "d">> \o SubSeq(DefaultReceiver, 3, 42),
     [DefaultReceiver EXCEPT ![42] = "g"],
     DefaultReceiver \o <<"0">>,
     [DefaultReceiver EXCEPT ![2] = "X"],
     DefaultReceiver \o <<"\n">>}

\* isValidEthereumAddress(address) is called
AddressCall ==
    /\ lib.fn = "isValidEthereumAddress"
    /\ Len(lib.results) < MaxCalls
    /\ \E address \in AddressInputs :
         lib' = [lib EXCEPT !.results =
                    Append(@, [address |-> address,
                               returned |-> isValidEthereumAddress(address)])]
    /\ UNCHANGED <<tokenLedger, execVars, formVars>>

\* the identifiers a caller may ask the registry about
ChainIdInputs == ChainId \cup {"polygon-amoy"}

\* a chain identifier is looked up: getCCIPSVMConfig, and the destination of the form
RegistryCall ==
    /\ lib.fn = "getCCIPSVMConfig"
    /\ Len(lib.results) < MaxCalls
    /\ \E id \in ChainIdInputs :
         lib' = [lib EXCEPT !.results =
                    Append(@, [chainId |-> id, svm |-> getCCIPSVMConfig(id),
                               destinations |-> DestinationsWithId(DESTINATION_CHAINS, id)])]
    /\ UNCHANGED <<tokenLedger, execVars, formVars>>

\* the component that uses the hook calls connect()
HookConnect ==
    /\ lib.fn = "useWallet"
    /\ Len(lib.ops) < MaxHookOps
    /\ \E accepted \in 0..2 :
         lib' = [lib EXCEPT !.hook = connect(@, accepted),
                            !.ops = Append(@, "connect")]
    /\ UNCHANGED <<tokenLedger, execVars, formVars>>

\* the component that uses the hook calls disconnect()
HookDisconnect ==
    /\ lib.fn = "useWallet"
    /\ Len(lib.ops) < MaxHookOps
    /\ lib' = [lib EXCEPT !.hook = disconnect(@),
                          !.ops = Append(@, "disconnect")]
    /\ UNCHANGED <<tokenLedger, execVars, formVars>>

\* the component is unmounted and mounted again (a reload): the state is lost,
\* the storage is kept
HookRemount ==
    /\ lib.fn = "useWallet"
    /\ Len(lib.ops) < MaxHookOps
    /\ lib' = [lib EXCEPT !.hook = useWallet(@.storage),
                          !.ops = Append(@, "remount")]
    /\ UNCHANGED <<tokenLedger, execVars, formVars>>

\* one library function is picked, with the transaction it is asked about
LibInit ==
    /\ ProgramInit
    /\ \A ata \in TokenAccounts : tokenLedger[ata] = Holding(10000000)
    /\ \/ \E sig \in Signatures, logs \in LogLists :
            lib = [fn |-> "extractMessageId", signature |-> sig, logs |-> logs,
                   results |-> <<>>]
       \/ lib = [fn |-> "calculateCCIPFee", results |-> <<>>]
       \/ lib = [fn |-> "validateWalletBalance", results |-> <<>>]
       \/ lib = [fn |-> "toRawTokenAmount", results |-> <<>>]
       \/ lib = [fn |-> "isValidEthereumAddress", results |-> <<>>]
       \/ lib = [fn |-> "getCCIPSVMConfig", results |-> <<>>]
       \/ lib = [fn |-> "useWallet", hook |-> useWallet(NoStorage), ops |-> <<>>]

LibNext ==
    \/ ExtractMessageIdCall
    \/ FeeCall
    \/ BalanceCall
    \/ AmountCall
    \/ AddressCall
    \/ RegistryCall
    \/ HookConnect
    \/ HookDisconnect
    \/ HookRemount

\* the library functions, each called on its own
LibSpec == LibInit /\ [][LibNext]_vars

\* ------------------------------------------------------------------ properties
Has(seq, x) == \E i \in 1..Len(seq) : seq[i] = x
Count(seq, x) == Cardinality({i \in 1..Len(seq) : seq[i] = x})
IsPrefix(s, t) == Len(s) <= Len(t) /\ SubSeq(t, 1, Len(s)) = s

\* the steps of one transfer, in the order of the state machine
StepOrder ==
    <<"validateTokenBalances", "calculateCCIPFees", "buildCCIPTransaction", "signTransaction",
      "sendRawTransaction", "confirmTransaction", "extractMessageId">>
StepNames == {StepOrder[i] : i \in 1..Len(StepOrder)}

RECURSIVE Steps(_)
Steps(t) ==
    IF t = <<>> THEN <<>>
    ELSE IF Head(t) \in StepNames THEN <<Head(t)>> \o Steps(Tail(t)) ELSE Steps(Tail(t))

LedgerQueries == {"getAccount", "getLatestBlockhash", "getTransaction"}

Answered(call, ok) == \E i \in 1..Len(answers) : answers[i].call = call /\ answers[i].ok = ok

\* C1: when wallet.signTransaction rejects, the call ends in a failure that
\* carries the prefixed message, and neither submit, nor the confirmation, nor
\* the message-id extraction is ever called.
C1_SignRejectionStops ==
    Answered("signTransaction", FALSE) =>
        /\ pc = "failed"
        /\ outcome.status = "failure"
        /\ outcome.at = "sign"
        /\ Head(outcome.message) = "CCIP transfer failed: "
        /\ ~Has(trace, "sendRawTransaction")
        /\ ~Has(trace, "confirmTransaction")
        /\ ~Has(trace, "extractMessageId")

C1_Witness ==
    /\ pc = "failed"
    /\ Answered("signTransaction", FALSE)
    /\ trace[Len(trace)] = "signTransaction"

\* the step a failure belongs to
FailedStep ==
    CASE outcome.at = "validate" -> "validateTokenBalances"
      [] outcome.at = "build" -> "buildCCIPTransaction"
      [] outcome.at = "sign" -> IF wallet.canSign THEN "signTransaction" ELSE "buildCCIPTransaction"
      [] outcome.at = "submit" -> "sendRawTransaction"
      [] outcome.at = "confirm" -> "confirmTransaction"

\* C3: the steps of one call are taken in the order validation, fee, build,
\* signature, submission, confirmation, extraction; none is skipped, a step that
\* failed is the last one taken, and a successful call has taken them all.
C3_StepsInOrder ==
    /\ IsPrefix(Steps(trace), StepOrder)
    /\ outcome.status = "success" => Steps(trace) = StepOrder
    /\ (outcome.status = "failure" /\ outcome.at # "entry") =>
          Steps(trace)[Len(Steps(trace))] = FailedStep
    /\ \A i \in 1..Len(answers) :
          (~answers[i].ok /\ answers[i].step \notin {"ata", "extract"}) => i = Len(answers)

C3_Witness ==
    /\ pc = "done"
    /\ Steps(trace) = StepOrder
    /\ Len(config.tokenAmounts) = MaxTokens

\* C4 as claimed: a wallet without publicKey or without signTransaction makes
\* the call fail at once with "Wallet not connected", before any ledger query,
\* build, signature or submission.
C4_NotConnectedFailsFast ==
    (pc # "idle" /\ (wallet.publicKey = Null \/ ~wallet.canSign)) =>
        /\ pc = "failed"
        /\ outcome.message = <<"Wallet not connected">>
        /\ trace = <<>>

\* the half of C4 that the code keeps: no publicKey, no call at all
C4_NoPublicKeyFailsFast ==
    (pc # "idle" /\ wallet.publicKey = Null) =>
        /\ pc = "failed"
        /\ outcome.message = <<"Wallet not connected">>
        /\ trace = <<>>

\* whether what validateTokenBalances saw for a token lets the token pass
CheckPassed(c) ==
    /\ c.found
    /\ BigIntParse(c.amount).ok
    /\ c.available >= BigIntParse(c.amount).value

\* C6: a token that fails validation ends the call in failure before the
\* builder, the signer or submit is called; and the builder is called only
\* when every token of the request was seen to exist with enough balance.
C6_ValidationGatesBuilder ==
    /\ (\E i \in 1..Len(checked) : ~CheckPassed(checked[i])) =>
          /\ pc = "failed"
          /\ outcome.status = "failure"
          /\ ~Has(trace, "buildCCIPTransaction")
          /\ ~Has(trace, "signTransaction")
          /\ ~Has(trace, "sendRawTransaction")
    /\ Has(trace, "buildCCIPTransaction") =>
          /\ Len(checked) = Len(config.tokenAmounts)
          /\ \A i \in 1..Len(checked) :
                /\ checked[i].mint = config.tokenAmounts[i].tokenMint
                /\ checked[i].amount = config.tokenAmounts[i].amount
                /\ CheckPassed(checked[i])

C6_Witness ==
    /\ pc = "failed"
    /\ Len(checked) = 2
    /\ CheckPassed(checked[1])
    /\ checked[2].found
    /\ checked[2].available < BigIntParse(checked[2].amount).value

\* C7: sign and submit are called at most once per call, and a failure that
\* leaves a step, the confirmation after a submission included, ends the call.
C7_NoRetry ==
    /\ Count(trace, "signTransaction") <= 1
    /\ Count(trace, "sendRawTransaction") <= 1
    /\ Count(trace, "confirmTransaction") <= 1
    /\ (\E i \in 1..Len(answers) :
            ~answers[i].ok /\ answers[i].step \notin {"ata", "extract"}) =>
          /\ pc = "failed"
          /\ outcome.status = "failure"

C7_Witness ==
    /\ pc = "failed"
    /\ Answered("confirmTransaction", FALSE)
    /\ Count(trace, "sendRawTransaction") = 1

\* C8: after the confirmation the call always returns a result; when the
\* transaction cannot be fetched, has no logs or has no qualifying line, the
\* messageId is "0x" followed by the first 64 characters of the signature.
C8_CorrelatorFailureKeepsSuccess ==
    /\ Has(trace, "extractMessageId") =>
          /\ pc = "done"
          /\ outcome.status = "success"
    /\ (pc = "done" /\ ~outcome.logs.qualifies) =>
          outcome.result.messageId = <<"0", "x">> \o SubSeq(signature, 1, 64)

C8_Witness ==
    /\ pc = "done"
    /\ outcome.logs.kind = "throws"
    /\ Len(outcome.result.messageId) = 66

\* C9: a result exists only after submit returned an id and the confirmation
\* resolved; it carries that id, the correlator's messageId and the two URLs
\* built from them; a failed call carries no result.
C9_ResultOnlyOnSuccess ==
    /\ outcome.status = "success" =>
          /\ \E i \in 1..Len(answers) :
                /\ answers[i] = Answer("submit", "sendRawTransaction", TRUE,
                                       outcome.result.signature)
                /\ i < Len(answers)
                /\ answers[i + 1] = Answer("confirm", "confirmTransaction", TRUE, <<>>)
          /\ outcome.result.messageId = outcome.extracted
          /\ outcome.result.explorerUrl =
                <<"https://explorer.solana.com/tx/", outcome.result.signature, "?cluster=devnet">>
          /\ outcome.result.ccipExplorerUrl =
                <<"https://ccip.chain.link/msg/", outcome.result.messageId>>
    /\ outcome.status # "success" => "result" \notin DOMAIN outcome

C9_Witness ==
    /\ pc = "done"
    /\ outcome.logs.qualifies
    /\ outcome.result.signature = Sig("K")

C2_ShortBalanceStartsNothing ==
    [][(HandleTransfer /\ nativeLedger[adapter.publicKey] < MinSolRequiredLamports) =>
          /\ hpc' = "idle"
          /\ pc' = "idle"
          /\ trace' = <<>>
          /\ adapter.canSign => toast' = "Insufficient SOL"]_vars

\* C5 as claimed: every request that reaches connection.sendRawTransaction has
\* a receiver of the form 0x + 40 hex characters and token amounts that parse
\* as non-negative integers.
C5_OnlyValidRequestsSubmitted ==
    Has(trace, "sendRawTransaction") =>
        /\ isValidEthereumAddress(config.evmReceiverAddress)
        /\ \A i \in 1..Len(config.tokenAmounts) :
              /\ BigIntParse(config.tokenAmounts[i].amount).ok
              /\ BigIntParse(config.tokenAmounts[i].amount).value >= 0


\* C11 as claimed: all the calls of extractMessageId for one transaction
\* return the same message id, whatever the log fetch answers in each call.
C11_ExtractIsIdempotent ==
    lib.fn = "extractMessageId" =>
        \A i, j \in 1..Len(lib.results) : lib.results[i].messageId = lib.results[j].messageId

\* whether a log line has the event tag and a messageId token with an identifier
LineQualifies(line) == Has(line, "CCIPMessageSent") /\ LogMessageIdMatch(line) # <<>>

\* C12: for a transaction none of whose log lines qualifies, every call of
\* extractMessageId returns "0x" followed by the first 64 characters of the
\* signature, whether the logs could be fetched or not.
C12_FallbackIsPure ==
    (lib.fn = "extractMessageId" /\ \A k \in 1..Len(lib.logs) : ~LineQualifies(lib.logs[k])) =>
        \A i \in 1..Len(lib.results) :
            lib.results[i].messageId = <<"0", "x">> \o SubSeq(lib.signature, 1, 64)

C12_Witness ==
    /\ lib.fn = "extractMessageId"
    /\ lib.logs = <<LogTagOnly, LogIdOnly>>
    /\ Len(lib.results) = 2
    /\ lib.results[1].fetch = "throws"
    /\ lib.results[2].fetch = "logs"
    /\ Len(lib.results[2].messageId) = 66

\* C15: validateWalletBalance always returns: {hasEnoughSol: false, balance: 0}
\* when the balance query fails, and otherwise the queried balance together
\* with hasEnoughSol = (balance >= minSolRequired).
C15_BalanceNeverRaises ==
    lib.fn = "validateWalletBalance" =>
        \A i \in 1..Len(lib.results) :
            LET r == lib.results[i]
            IN  /\ ~r.answer.ok => r.returned = [hasEnoughSol |-> FALSE, balance |-> 0]
                /\ r.answer.ok =>
                      /\ r.returned.balance = r.answer.lamports
                      /\ r.returned.hasEnoughSol = (r.answer.lamports >= r.minRequired)

C15_Witness ==
    /\ lib.fn = "validateWalletBalance"
    /\ Len(lib.results) = 2
    /\ ~lib.results[1].answer.ok
    /\ lib.results[2].answer.ok
    /\ lib.results[2].answer.lamports = lib.results[2].minRequired
    /\ lib.results[2].returned.hasEnoughSol

\* the first token amount of a request; an empty list counts as amount 0
FirstAmountOf(cfg) ==
    IF cfg.tokenAmounts = <<>> THEN <<"0">> ELSE cfg.tokenAmounts[1].amount

\* C20: the estimate of either fee function is a function of the first token
\* amount alone: 0.002 SOL plus the amount times 0.0001 (1000.002 for
\* 10000000, 0.00215 for 1.5, 0.002 for an empty list), never below 0.002 for
\* a non-negative amount, whatever the other calls were.
C20_FeeDependsOnFirstAmount ==
    lib.fn = "calculateCCIPFee" =>
        \A i \in 1..Len(lib.results) :
            LET r == lib.results[i]
            IN  /\ \A j \in 1..Len(lib.results) :
                      FirstAmountOf(r.config) = FirstAmountOf(lib.results[j].config) =>
                          r.fee = lib.results[j].fee
                /\ FirstAmountOf(r.config) = RawTen =>
                      r.fee.feeInSol = [units |-> 1000002, exp10 |-> -3]
                /\ FirstAmountOf(r.config) = RawFraction =>
                      r.fee.feeInSol = [units |-> 215, exp10 |-> -5]
                /\ FirstAmountOf(r.config) \in {<<"0">>, <<>>} =>
                      r.fee.feeInSol = [units |-> 2, exp10 |-> -3]
                /\ FirstAmountOf(r.config) \in {RawTen, RawFraction, <<"0">>, <<>>} =>
                      /\ r.fee.kind = "num"
                      /\ r.fee.feeInSol.units * Pow10(r.fee.feeInSol.exp10 + 5) >= 200

C20_Witness ==
    /\ lib.fn = "calculateCCIPFee"
    /\ Len(lib.results) = 2
    /\ lib.results[1].config.tokenAmounts = <<TokenAmount("BnM", RawFraction)>>
    /\ lib.results[2].config.tokenAmounts =
          <<TokenAmount("BnM", RawFraction), TokenAmount("LINK", RawTen)>>
    /\ lib.results[1].fn # lib.results[2].fn
    /\ lib.results[2].fee.feeInSol = [units |-> 215, exp10 |-> -5]


FailurePrefix == "CCIP transfer failed: "

\* C13 as claimed: a token whose account does not exist fails validation with
\* "Token account not found" naming the mint, a token whose account holds less
\* than the amount fails with "Insufficient token balance" naming both amounts,
\* the tokens before the failing one passed, and validation returns only when
\* every token passed.  (A balance query that the network failed is left aside.)
C13_ValidationFailuresAreDistinct ==
    /\ (/\ pc = "failed"
        /\ outcome.at = "validate"
        /\ outcome.message # <<FailurePrefix>> \o NetworkError.message) =>
          LET c == checked[Len(checked)]
              required == BigIntParse(c.amount)
          IN  /\ \A i \in 1..(Len(checked) - 1) : CheckPassed(checked[i])
              /\ ~c.existed =>
                    outcome.message =
                        <<FailurePrefix, "Token account not found for mint: ", c.mint>>
              /\ (c.found /\ required.ok /\ c.available < required.value) =>
                    outcome.message =
                        <<FailurePrefix, "Insufficient token balance. Required: ">>
                            \o IntToStr(required.value) \o <<", Available: ">>
                            \o IntToStr(c.available)
    /\ Has(trace, "calculateCCIPFees") =>
          /\ Len(checked) = Len(config.tokenAmounts)
          /\ \A i \in 1..Len(checked) : CheckPassed(checked[i])

\* the kinds of the failure taxonomy
FailureKinds ==
    {"NotConnected", "InvalidInput", "InsufficientNativeFunds", "InsufficientTokenFunds",
     "TokenAccountMissing", "SignatureRejected", "SubmissionRejected", "ConfirmationTimeout"}

\* C14 as claimed: the failure a call ends in carries a kind of the taxonomy,
\* next to its message.
C14_FailuresCarryKind ==
    pc = "failed" =>
        /\ "kind" \in DOMAIN outcome
        /\ outcome.kind \in FailureKinds

\* whether buildCCIPTransaction has returned its transaction in this call
Built ==
    \/ pc \in {"sign", "submit", "confirm", "confirming", "extract", "done"}
    \/ pc = "failed" /\ outcome.at \in {"sign", "submit", "confirm"}

Creates(tx) ==
    {i \in 1..Len(tx.instructions) : tx.instructions[i].kind = "createAssociatedTokenAccount"}

\* C16: a built transaction starts with the compute-budget instruction, ends
\* with its only send instruction, and has in between nothing but
\* create-account instructions, in the order of the tokens of the request.
C16_InstructionOrder ==
    Built =>
        LET ins == transaction.instructions
            n == Len(ins)
        IN  /\ n >= 2
            /\ ins[1] = [kind |-> "setComputeUnitLimit", units |-> computeUnits]
            /\ ins[n].kind = "ccipSend"
            /\ \A i \in 2..(n - 1) : ins[i].kind = "createAssociatedTokenAccount"
            /\ \E f \in [2..(n - 1) -> 1..Len(config.tokenAmounts)] :
                  /\ \A i, j \in 2..(n - 1) : i < j => f[i] < f[j]
                  /\ \A i \in 2..(n - 1) : ins[i].mint = config.tokenAmounts[f[i]].tokenMint

C16_Witness ==
    /\ pc = "sign"
    /\ Len(transaction.instructions) = 4
    /\ transaction.instructions[2].mint # transaction.instructions[3].mint

\* C17 as claimed: a round of the builder's loop adds a create-account
\* instruction exactly when the token's account is missing on the ledger, and
\* never a second one for the same mint.
C17_CreateOnlyWhenMissing ==
    [][(pc = "ata" /\ tokIdx' # tokIdx) =>
          LET tok == config.tokenAmounts[tokIdx]
              ata == AssociatedTokenAddress(tok.tokenMint, wallet.publicKey)
          IN  /\ (Cardinality(Creates(transaction')) = Cardinality(Creates(transaction)) + 1)
                    <=> ~tokenLedger[ata].exists
              /\ \A i, j \in Creates(transaction') :
                    transaction'.instructions[i].mint = transaction'.instructions[j].mint
                        => i = j]_vars

\* C18 as claimed: when the transaction goes to the signer, the last thing
\* the call asked the network for is the blockhash.
C18_BlockhashJustBeforeSigning ==
    pc = "sign" => trace[Len(trace)] = "getLatestBlockhash"

\* C19 as claimed: whenever the receiver and the amount are filled in, the
\* estimate on display is the estimate of the request built from the fields
\* as they are (every state of the form is quiescent: the effects and their
\* continuations run within the step that sets a field).
C19_FeeIsCurrent ==
    (receiverAddress # <<>> /\ tokenAmount # <<>>) =>
        estimatedFee = FormFee(receiverAddress, tokenAmount)

\* a non-negative decimal string without superfluous zeros, and its fraction digits
PointsOf(d) == {i \in 1..Len(d) : d[i] = "."}
FractionLen(d) == IF PointsOf(d) = {} THEN 0 ELSE Len(d) - (CHOOSE i \in PointsOf(d) : TRUE)
IsDisplayDecimal(d) ==
    /\ d # <<>>
    /\ \A i \in 1..Len(d) : d[i] \in Digits \cup {"."}
    /\ Cardinality(PointsOf(d)) <= 1
    /\ d[1] \in Digits
    /\ d[Len(d)] \in Digits
    /\ PointsOf(d) # {} => d[Len(d)] # "0"
    /\ (Len(d) - FractionLen(d) - Cardinality(PointsOf(d)) > 1) => d[1] # "0"

\* C21 as claimed: for a non-negative decimal string d with at most n fraction
\* digits, formatTokenAmount(toRawTokenAmount(d, n), n) is d again.
C21_RoundTrip ==
    lib.fn = "toRawTokenAmount" =>
        \A i \in 1..Len(lib.results) :
            LET r == lib.results[i]
            IN  (IsDisplayDecimal(r.amount) /\ FractionLen(r.amount) <= r.decimals) =>
                    r.display = r.amount

\* amount * 10^decimals of a parsed number, cut towards zero
TruncScaled(x, decimals) ==
    LET p == decimals + x.exp - x.scale
        magnitude == IF p >= 0 THEN x.mant * Pow10(p) ELSE x.mant \div Pow10(0 - p)
    IN  IF x.neg THEN 0 - magnitude ELSE magnitude

\* C22 as claimed: toRawTokenAmount returns "0" for an amount that does not
\* parse, and otherwise the integer literal of amount * 10^decimals cut towards
\* zero ("10000000" for "0.01" with 9 decimals).
C22_RawIsTruncated ==
    lib.fn = "toRawTokenAmount" =>
        \A i \in 1..Len(lib.results) :
            LET r == lib.results[i]
                x == ParseFloat(r.amount)
            IN  /\ x.kind = "nan" => r.raw = <<"0">>
                /\ x.kind # "nan" =>
                      /\ BigIntParse(r.raw).ok
                      /\ BigIntParse(r.raw).value = TruncScaled(x, r.decimals)
                /\ (r.amount = <<"0", ".", "0", "1">> /\ r.decimals = 9) =>
                      r.raw = <<"1", "0", "0", "0", "0", "0", "0", "0">>
                /\ r.amount = <<"a", "b", "c">> => r.raw = <<"0">>

HexAlphabet ==
    {"0", "1", "2", "3", "4", "5", "6", "7", "8", "9",
     "a", "b", "c", "d", "e", "f", "A", "B", "C", "D", "E", "F"}

\* C23: isValidEthereumAddress accepts a string exactly when it is "0x"
\* followed by exactly 40 hexadecimal characters of either case.
C23_AddressGrammar ==
    lib.fn = "isValidEthereumAddress" =>
        \A i \in 1..Len(lib.results) :
            LET a == lib.results[i].address
            IN  /\ lib.results[i].returned =
                      (/\ Len(a) = 42
                       /\ SubSeq(a, 1, 2) = <<"0", "x">>
                       /\ \A k \in 3..42 : a[k] \in HexAlphabet)
                /\ a = DefaultReceiver => lib.results[i].returned
                /\ a \in {<<>>, <<"0", "x", "1", "2", "3">>} => ~lib.results[i].returned

C23_Witness ==
    /\ lib.fn = "isValidEthereumAddress"
    /\ Len(lib.results) = 2
    /\ lib.results[1].address = DefaultReceiver
    /\ lib.results[1].returned
    /\ Len(lib.results[2].address) = 43
    /\ ~lib.results[2].returned

\* comparison of two natural numbers written in decimal digits
DecimalLess(a, b) ==
    \/ Len(a) < Len(b)
    \/ /\ Len(a) = Len(b)
       /\ \E i \in 1..Len(a) :
             /\ SubSeq(a, 1, i - 1) = SubSeq(b, 1, i - 1)
             /\ DigitVal(a[i]) < DigitVal(b[i])
IsPositiveDecimal(s) == s # <<>> /\ IsDigits(s) /\ s[1] # "0"
\* 2^128
TwoTo128 == <<"3", "4", "0", "2", "8", "2", "3", "6", "6", "9", "2", "0", "9", "3", "8", "4", "6", "3", "4", "6", "3", "3", "7", "4", "6", "0", "7", "4", "3", "1", "7", "6", "8", "2", "1", "1", "4", "5", "6">>
DestinationIds == {"ethereum-sepolia", "base-sepolia", "arbitrum-sepolia"}

\* C24: getCCIPSVMConfig fails with the unsupported-chain error for an
\* identifier it does not support, and each destination chain of the form has
\* exactly one descriptor, whose selector is positive, below 2^128 and not the
\* selector of any other chain.
C24_RegistryIsSound ==
    lib.fn = "getCCIPSVMConfig" =>
        \A i \in 1..Len(lib.results) :
            LET r == lib.results[i]
            IN  /\ r.chainId # "solana-devnet" =>
                      /\ r.svm.threw
                      /\ r.svm.error.message = <<"Unsupported SVM chain ID: ", r.chainId>>
                /\ r.chainId = "solana-devnet" =>
                      /\ ~r.svm.threw
                      /\ r.svm.config.id = r.chainId
                /\ r.chainId \in DestinationIds =>
                      /\ Len(r.destinations) = 1
                      /\ r.destinations[1].id = r.chainId
                      /\ IsPositiveDecimal(r.destinations[1].selector)
                      /\ DecimalLess(r.destinations[1].selector, TwoTo128)
                      /\ \A other \in ChainId \ {r.chainId} :
                            CHAIN_SELECTORS[other] # r.destinations[1].selector
                /\ r.chainId \notin DestinationIds => r.destinations = <<>>

C24_Witness ==
    /\ lib.fn = "getCCIPSVMConfig"
    /\ Len(lib.results) = 2
    /\ lib.results[1].chainId = "polygon-amoy"
    /\ lib.results[1].svm.threw
    /\ lib.results[2].chainId = "arbitrum-sepolia"
    /\ Len(lib.results[2].destinations) = 1

\* "0x" followed by hexadecimal characters
IsHexId(id) ==
    /\ Len(id) > 2
    /\ SubSeq(id, 1, 2) = <<"0", "x">>
    /\ \A k \in 3..Len(id) : id[k] \in HexAlphabet

\* C25 as claimed: a call for a valid receiver and one token amount "10000000"
\* that succeeds returns a non-empty transaction id and a message id that is
\* "0x" followed by hexadecimal characters.
C25_EndToEndIdsWellFormed ==
    (/\ pc = "done"
     /\ isValidEthereumAddress(config.evmReceiverAddress)
     /\ Len(config.tokenAmounts) = 1
     /\ config.tokenAmounts[1].amount = <<"1", "0", "0", "0", "0", "0", "0", "0">>) =>
        /\ outcome.result.signature # <<>>
        /\ IsHexId(outcome.result.messageId)

\* C26: the send instruction of a built transaction targets the router and
\* lists the sender (the only signer), the router, the fee quoter and the
\* system program, then the token account and the mint of each token of the
\* request, in the order of the request.
C26_SendAccountsOrder ==
    Built =>
        LET send == transaction.instructions[Len(transaction.instructions)]
            n == Len(config.tokenAmounts)
        IN  /\ send.programId = "Ccip842gzYHhvdDkSyi2YVCoAWPbYJoApMFzSxQroE9C"
            /\ Len(send.keys) = 4 + 2 * n
            /\ send.keys[1].pubkey = wallet.publicKey
            /\ send.keys[2].pubkey = "Ccip842gzYHhvdDkSyi2YVCoAWPbYJoApMFzSxQroE9C"
            /\ send.keys[3].pubkey = "FeeQPGkKDeRV1MgoYfMH6L8o3KeuYjwUZrgn4LRKfjHi"
            /\ send.keys[4].pubkey = SystemProgramId
            /\ \A k \in 1..Len(send.keys) : send.keys[k].isSigner = (k = 1)
            /\ \A t \in 1..n :
                  /\ send.keys[3 + 2 * t].pubkey =
                        <<wallet.publicKey, config.tokenAmounts[t].tokenMint>>
                  /\ send.keys[4 + 2 * t].pubkey = config.tokenAmounts[t].tokenMint

C26_Witness ==
    /\ pc = "sign"
    /\ Len(config.tokenAmounts) = 2
    /\ config.tokenAmounts[1].tokenMint # config.tokenAmounts[2].tokenMint
    /\ Len(transaction.instructions[Len(transaction.instructions)].keys) = 8

\* the lines of a log list that have the tag and a messageId token with an identifier
Qualifying(logs) == {k \in 1..Len(logs) : LineQualifies(logs[k])}

\* C27: when the logs are fetched, extractMessageId returns the identifier of
\* the first line that has the tag and a messageId token, passing over the
\* lines with the tag alone; it returns the fallback id only when no line
\* qualifies or the logs are not available.
C27_FirstQualifyingLine ==
    lib.fn = "extractMessageId" =>
        \A i \in 1..Len(lib.results) :
            LET r == lib.results[i]
                fallback == <<"0", "x">> \o SubSeq(lib.signature, 1, 64)
            IN  /\ (r.fetch = "logs" /\ Qualifying(lib.logs) # {}) =>
                      LET first == CHOOSE k \in Qualifying(lib.logs) :
                                      \A j \in Qualifying(lib.logs) : k <= j
                      IN  /\ r.messageId = LogMessageIdMatch(lib.logs[first])
                          /\ lib.logs[first] = LogTagId => r.messageId = <<"0", "x", "1", "f">>
                          /\ lib.logs[first] = LogTagId2 => r.messageId = <<"7", "e">>
                /\ (r.fetch # "logs" \/ Qualifying(lib.logs) = {}) => r.messageId = fallback

C27_Witness ==
    /\ lib.fn = "extractMessageId"
    /\ lib.logs = <<LogTagOnly, LogTagId>>
    /\ Len(lib.results) = 1
    /\ lib.results[1].fetch = "logs"
    /\ lib.results[1].messageId = <<"0", "x", "1", "f">>


\* C28: a click starts a transfer only when none started from the form is
\* under way, and isLoading is true for as long as one is.
C28_OneTransferAtATime ==
    /\ []((hpc # "idle" \/ pc # "idle") => isLoading)
    /\ [][(HandleTransfer /\ hpc' = "executing") =>
             (hpc = "idle" /\ pc = "idle" /\ ~isLoading)]_vars

C28_Witness ==
    /\ hpc = "executing"
    /\ pc = "confirming"
    /\ isLoading
    /\ toast = "Transfer Initiated"

C30_ResultIsLatest ==
    /\ [](hpc = "executing" => transferResult = <<>>)
    /\ [][transferResult' # transferResult =>
             \/ HandleTransfer /\ hpc' = "executing" /\ transferResult' = <<>>
             \/ /\ hpc = "executing"
                /\ pc = "done"
                /\ transferResult' = <<outcome.result>>]_vars
    /\ [][(hpc = "executing" /\ pc = "failed" /\ hpc' = "idle") =>
             transferResult' = <<>>]_vars

C30_Witness ==
    /\ hpc = "executing"
    /\ toast = "Transfer Initiated"
    /\ transferResult = <<>>
    /\ pc = "failed"


\* C31: a request that names a token whose account is missing fails at
\* validation and never reaches the builder; the builder is reached only with
\* accounts that existed at validation; and a round of the builder's loop
\* whose existence query is answered for an account that exists adds no
\* create-account instruction.
C31_MissingAccountNotRemediated ==
    /\ []((\E i \in 1..Len(checked) : ~checked[i].existed) =>
            /\ pc = "failed"
            /\ outcome.at = "validate"
            /\ ~Has(trace, "buildCCIPTransaction")
            /\ transaction.instructions = <<>>)
    /\ [](Has(trace, "buildCCIPTransaction") =>
            /\ Len(checked) = Len(config.tokenAmounts)
            /\ \A i \in 1..Len(checked) : checked[i].existed)
    /\ [][(pc = "ata" /\ tokIdx' # tokIdx) =>
             LET tok == config.tokenAmounts[tokIdx]
                 ata == AssociatedTokenAddress(tok.tokenMint, wallet.publicKey)
             IN  (tokenLedger[ata].exists /\ answers'[Len(answers')].ok) =>
                     Creates(transaction') = Creates(transaction)]_vars

C31_Witness ==
    /\ pc = "failed"
    /\ Len(checked) = 2
    /\ checked[1].existed
    /\ ~checked[2].existed
    /\ outcome.at = "validate"


\* C32 as claimed: the balance the form holds while a wallet is connected is
\* a balance that was fetched for the connected account.
C32_BalanceOfConnectedAccount ==
    (adapter.connected /\ solBalance.known) => solBalance.of = adapter.publicKey


\* the last operation of `ops` that is not a remount ("none" if there is none)
LastHookCall(ops) ==
    LET calls == {i \in 1..Len(ops) : ops[i] # "remount"}
    IN  IF calls = {} THEN "none"
        ELSE ops[CHOOSE i \in calls : \A j \in calls : j <= i]

\* C33 as claimed: after any operations on the wallet hook, isConnected is true
\* exactly when address is set, the two stored keys are both present or both
\* absent, a remount after connect gives the connected state with the stored
\* address, and a remount after disconnect gives the disconnected state.
C33_HookStateAndStorageAgree ==
    lib.fn = "useWallet" =>
        LET hook == lib.hook
            remounted == lib.ops # <<>> /\ lib.ops[Len(lib.ops)] = "remount"
        IN  /\ hook.isConnected <=> hook.address # Null
            /\ (hook.storage["wallet_connected"] = Null)
                    <=> (hook.storage["wallet_address"] = Null)
            /\ (remounted /\ LastHookCall(lib.ops) = "connect") =>
                    /\ hook.isConnected
                    /\ hook.address = MockAddress
                    /\ hook.address = hook.storage["wallet_address"]
            /\ (remounted /\ LastHookCall(lib.ops) = "disconnect") =>
                    /\ ~hook.isConnected
                    /\ hook.address = Null

====
